---- MODULE Spec2Model ----
(***************************************************************************)
(* Model of src/server.js: the host authorizer (hostAllowedAsync,          *)
(* cidrContains), the bounded scheduler (mapWithConcurrency), the port     *)
(* probe (checkTcpPort) and the two request handlers (/tcp/check and       *)
(* /tcp/scan-range).                                                       *)
(*                                                                         *)
(* JavaScript runs one job at a time: a handler or callback runs to its    *)
(* next await without interruption, then the microtask queue (promise      *)
(* reactions) is drained, and only then is the next I/O event delivered.   *)
(* Strings are sequences of one-character strings, so that the regular     *)
(* expression of hostAllowedAsync and the parsing of addresses and prefix  *)
(* lengths are computed, not assumed.                                      *)
(***************************************************************************)
EXTENDS Integers, Sequences, FiniteSets, TLC

VARIABLES
  mc,         \* one call of mapWithConcurrency with an arbitrary worker fn
  ALLOWLIST,  \* the allowlist of the process (server.js line 20)
  ha,         \* one call of hostAllowedAsync
  req,        \* the requests being served: request id -> handler state
  budget,     \* socket events still to be delivered in this run
  pool,       \* which requests clients send in this run: "small", "load",
              \* "params" or "dns"
  probe       \* one call of checkTcpPort

vars == <<mc, ALLOWLIST, ha, req, budget, pool, probe>>

(***************************************************************************)
(* Bounds of the model.                                                    *)
(***************************************************************************)
MaxItems == 3      \* longest items list given to mapWithConcurrency alone
MaxLimit == 3      \* largest limit given to mapWithConcurrency alone
MaxRules == 2      \* longest allowlist given to hostAllowedAsync alone
MaxRecords == 2    \* most addresses in one answer of dns.lookup
MaxReqs == 1       \* small requests served concurrently in one run
MaxEvents == 2     \* socket events delivered in one run of small requests
MaxLoadReqs == 2   \* large requests served concurrently in one run
MaxLoadEvents == 1 \* socket events delivered in one run of large requests
MaxScanEvents == 3 \* socket events delivered to one request on its own

(***************************************************************************)
(* Program constants.                                                      *)
(***************************************************************************)
MAX_PORT_RANGE == 200
MAX_CONCURRENCY == 50
MAX_PORT == 65535

Max(a, b) == IF a >= b THEN a ELSE b
Min(a, b) == IF a <= b THEN a ELSE b

(***************************************************************************)
(* The scheduler: mapWithConcurrency(items, fn, concurrency).              *)
(*                                                                         *)
(* A call is a record.  Promise p of the k-th loop iteration has id k.     *)
(*   pc        "loop": the for loop is running (synchronously);            *)
(*             "awaitRace": suspended at await Promise.race(executing);    *)
(*             "all": returned Promise.all(results), not yet settled;      *)
(*             "done": the returned promise is fulfilled with out;         *)
(*             "rejected": the returned promise is rejected                *)
(*   results   the array results (promise ids, in push order)              *)
(*   executing the Set executing                                           *)
(*   pst, pval state and value of each promise p                           *)
(*   qst, qval state and value of what fn(item) gave for each p            *)
(*   reacts    the reactions registered on each p while it was pending     *)
(*   mq        the microtask queue                                         *)
(*   raceId    the number of Promise.race calls made; raceOpen: the latest *)
(*             race promise is still pending                               *)
(*   allLeft, values  Promise.all's remaining count and values array       *)
(*   order     history: the promises p in the order in which they settled  *)
(***************************************************************************)
None == [none |-> TRUE]

\* {error: String(e)} of line 114
ErrorItem(e) == [error |-> e]

Job(t, p, a) == [t |-> t, p |-> p, a |-> a]

NewCall(items, concurrency) ==
  [items |-> items, concurrency |-> concurrency, pc |-> "loop",
   results |-> <<>>, executing |-> {},
   pst |-> <<>>, pval |-> <<>>, qst |-> <<>>, qval |-> <<>>,
   reacts |-> <<>>, mq |-> <<>>, raceId |-> 0, raceOpen |-> FALSE,
   allLeft |-> 0, values |-> <<>>, out |-> <<>>, order |-> <<>>]

\* The elements of a set of promise ids in insertion order (ids grow).
InOrder(S) ==
  [i \in 1..Cardinality(S) |-> CHOOSE x \in S : Cardinality({y \in S : y <= x}) = i]

\* p.then(reaction) / p.finally(reaction): a reaction on a settled promise is
\* queued at once, one on a pending promise waits for its settlement.
Register(c, p, t, a) ==
  IF c.pst[p] = "pending"
    THEN [c EXCEPT !.reacts[p] = Append(@, Job(t, p, a))]
    ELSE [c EXCEPT !.mq = Append(@, Job(t, p, a))]

\* Promise.race(executing): a reaction on every member of the set S, taken in
\* the set's order.
RegisterAll(c, S, t, a) ==
  LET settled == InOrder({p \in S : c.pst[p] # "pending"})
  IN [c EXCEPT
        !.reacts = [p \in 1..Len(c.reacts) |->
                      IF p \in S /\ c.pst[p] = "pending"
                        THEN Append(c.reacts[p], Job(t, p, a))
                        ELSE c.reacts[p]],
        !.mq = @ \o [i \in 1..Len(settled) |-> Job(t, settled[i], a)]]

\* Promise p settles: its reactions are queued in registration order.
Settle(c, p, st, val) ==
  [c EXCEPT !.pst[p] = st, !.pval[p] = val, !.order = Append(@, p),
            !.mq = @ \o c.reacts[p], !.reacts[p] = <<>>]

\* Lines 113-115: what the async wrapper makes of the outcome of fn(item).
\* Without the try/catch a throw or rejection would reject p.
WrapperOutcomeNoCatch(qs, qv) ==
  IF qs = "fulfilled" THEN [st |-> "fulfilled", val |-> qv]
  ELSE [st |-> "rejected", val |-> qv]

WrapperOutcome(qs, qv) ==
  IF qs = "fulfilled" THEN [st |-> "fulfilled", val |-> qv]
  ELSE [st |-> "fulfilled", val |-> ErrorItem(qv)]

\* Line 119: the loop suspends when the set is full.
MustWaitStrict(size, concurrency) == size > concurrency

MustWait(size, concurrency) == size >= concurrency

\* Line 118: the callback given to p.finally.
FinallyCallback(c, p) == [c EXCEPT !.executing = @ \ {p}]

\* Promise.all's element function: variant that appends in completion order.
AllElementAppend(c, i, p) ==
  LET vs == [k \in 1..Len(c.values) |->
               IF k = Len(c.values) - c.allLeft + 1 THEN c.pval[p] ELSE c.values[k]]
  IN IF c.allLeft = 1
       THEN [c EXCEPT !.values = vs, !.allLeft = 0, !.pc = "done", !.out = vs]
       ELSE [c EXCEPT !.values = vs, !.allLeft = @ - 1]

\* Line 123, Promise.all's element function: the value of the i-th promise of
\* results is stored at index i; the last one fulfils the returned promise.
AllElement(c, i, p) ==
  LET vs == [c.values EXCEPT ![i] = c.pval[p]]
  IN IF c.allLeft = 1
       THEN [c EXCEPT !.values = vs, !.allLeft = 0, !.pc = "done", !.out = vs]
       ELSE [c EXCEPT !.values = vs, !.allLeft = @ - 1]

\* Lines 112-121: one iteration of the for loop.  b is what fn(item) does:
\* "throw" (throws synchronously, v the error), "value" (returns a value or
\* a promise fulfilled with v), "reject" (returns a promise rejected with
\* v), "pending" (returns a promise that is still pending).
LoopIter(c, b, v) ==
  LET p  == Len(c.results) + 1
      w  == WrapperOutcome("rejected", v)
      c1 == [c EXCEPT
               !.pst = Append(@, IF b = "throw" THEN w.st ELSE "pending"),
               !.pval = Append(@, IF b = "throw" THEN w.val ELSE None),
               !.qst = Append(@, CASE b = "throw" -> "rejected"
                                   [] b = "reject" -> "rejected"
                                   [] b = "value" -> "fulfilled"
                                   [] OTHER -> "pending"),
               !.qval = Append(@, IF b = "pending" THEN None ELSE v),
               !.reacts = Append(@, <<>>),
               !.order = IF b = "throw" THEN Append(@, p) ELSE @,
               !.mq = IF b \in {"value", "reject"}
                        THEN Append(@, Job("cont", p, 0)) ELSE @]
      c2 == [c1 EXCEPT !.results = Append(@, p), !.executing = @ \cup {p}]
      c3 == Register(c2, p, "finally", 0)
  IN IF MustWait(Cardinality(c3.executing), c3.concurrency)
       THEN [RegisterAll([c3 EXCEPT !.raceId = @ + 1, !.raceOpen = TRUE],
                         c3.executing, "race", c3.raceId + 1)
               EXCEPT !.pc = "awaitRace"]
       ELSE c3

\* Promise.all(results): a reaction on every promise of results, with its
\* index in results.
RegisterEach(c) ==
  LET jobs == [i \in 1..Len(c.results) |-> Job("all", c.results[i], i)]
  IN [c EXCEPT
        !.reacts = [p \in 1..Len(c.reacts) |->
                      IF c.pst[p] = "pending"
                        THEN c.reacts[p] \o SelectSeq(jobs, LAMBDA j : j.p = p)
                        ELSE c.reacts[p]],
        !.mq = @ \o SelectSeq(jobs, LAMBDA j : c.pst[j.p] # "pending")]

\* Line 123: return Promise.all(results).
LoopEnd(c) ==
  IF c.results = <<>>
    THEN [c EXCEPT !.pc = "done", !.out = <<>>]
    ELSE RegisterEach([c EXCEPT !.pc = "all", !.allLeft = Len(c.results),
                                !.values = [k \in 1..Len(c.results) |-> None]])

\* The loop runs one step: the next iteration, or the return after the last.
LoopStep(c, b, v) ==
  IF Len(c.results) < Len(c.items) THEN LoopIter(c, b, v) ELSE LoopEnd(c)

\* A race promise that never settles.
RaceSettlesNever(c, p, id) == FALSE

\* A barrier in the place of the race: the reaction of member p resumes the
\* loop only when no member is pending any more.
RaceSettlesWhenAll(c, p, id) ==
  c.raceOpen /\ id = c.raceId /\ \A q \in c.executing : c.pst[q] # "pending"

\* Line 120, Promise.race(executing): the reaction of the first member to
\* settle settles the race promise of its call; later ones find it settled.
RaceSettles(c, p, id) == c.raceOpen /\ id = c.raceId

\* One microtask: the job at the head of the queue runs.
MicroStep(c) ==
  LET j == Head(c.mq)
      d == [c EXCEPT !.mq = Tail(@)]
  IN CASE j.t = "cont" ->
            \* the wrapper resumes after await fn(item) and returns or throws
            LET w == WrapperOutcome(d.qst[j.p], d.qval[j.p])
            IN Settle(d, j.p, w.st, w.val)
       [] j.t = "finally" -> FinallyCallback(d, j.p)
       [] j.t = "race" ->
            \* the first settled member settles the race promise; the loop's
            \* await continuation is queued
            IF RaceSettles(d, j.p, j.a)
              THEN [d EXCEPT !.raceOpen = FALSE,
                             !.mq = Append(@, Job("resume", j.p, 0))]
              ELSE d
       [] j.t = "resume" ->
            IF d.pst[j.p] = "fulfilled" THEN [d EXCEPT !.pc = "loop"]
            ELSE [d EXCEPT !.pc = "rejected"]
       [] j.t = "all" ->
            IF d.pc # "all" THEN d
            ELSE IF d.pst[j.p] = "rejected" THEN [d EXCEPT !.pc = "rejected"]
            ELSE AllElement(d, j.a, j.p)
       [] OTHER -> d

\* The promise that fn returned for p settles (an I/O event outside the
\* scheduler): the wrapper's await continuation is queued.
FnSettled(c, p, st, v) ==
  [c EXCEPT !.qst[p] = st, !.qval[p] = v, !.mq = Append(@, Job("cont", p, 0))]

\* Nothing of the call can run before the next I/O event.
Quiet(c) == c.pc # "loop" /\ c.mq = <<>>

\* Workers started and not yet settled.
InFlight(c) == {p \in 1..Len(c.pst) : c.pst[p] = "pending"}

(***************************************************************************)
(* Strings: a string is a sequence of one-character strings.               *)
(***************************************************************************)
Digits == {"0", "1", "2", "3", "4", "5", "6", "7", "8", "9"}

DigitVal(ch) ==
  CASE ch = "0" -> 0 [] ch = "1" -> 1 [] ch = "2" -> 2 [] ch = "3" -> 3
    [] ch = "4" -> 4 [] ch = "5" -> 5 [] ch = "6" -> 6 [] ch = "7" -> 7
    [] ch = "8" -> 8 [] ch = "9" -> 9

AllDigits(s) == \A i \in 1..Len(s) : s[i] \in Digits

\* String.prototype.includes for a one-character needle.
Includes(s, ch) == \E i \in 1..Len(s) : s[i] = ch

\* String.prototype.split for a one-character separator.
RECURSIVE Split(_, _)
Split(s, sep) ==
  IF ~Includes(s, sep) THEN <<s>>
  ELSE LET i == CHOOSE k \in 1..Len(s) :
                  s[k] = sep /\ \A j \in 1..(k - 1) : s[j] # sep
       IN <<SubSeq(s, 1, i - 1)>> \o Split(SubSeq(s, i + 1, Len(s)), sep)

\* String.prototype.trim (the only white space of the model is the blank).
RECURSIVE Trim(_)
Trim(s) ==
  IF s = <<>> THEN s
  ELSE IF Head(s) = " " THEN Trim(Tail(s))
  ELSE IF s[Len(s)] = " " THEN Trim(SubSeq(s, 1, Len(s) - 1))
  ELSE s

\* The value of a string of decimal digits.
RECURSIVE DecValue(_)
DecValue(s) ==
  IF s = <<>> THEN 0 ELSE 10 * DecValue(SubSeq(s, 1, Len(s) - 1)) + DigitVal(s[Len(s)])

\* The longest prefix of s made of digits.
RECURSIVE DigitPrefix(_)
DigitPrefix(s) ==
  IF s = <<>> \/ Head(s) \notin Digits THEN <<>>
  ELSE <<Head(s)>> \o DigitPrefix(Tail(s))

\* parseInt(s, 10): leading blanks are skipped, then an optional sign and the
\* longest run of digits; NaN when there is no digit.
NaN == [nan |-> TRUE, v |-> 0]
Num(n) == [nan |-> FALSE, v |-> n]

ParseInt(s) ==
  LET t    == Trim(s)
      neg  == t # <<>> /\ Head(t) = "-"
      body == IF t # <<>> /\ Head(t) \in {"-", "+"} THEN Tail(t) ELSE t
      ds   == DigitPrefix(body)
  IN IF ds = <<>> THEN NaN
     ELSE Num(IF neg THEN 0 - DecValue(ds) ELSE DecValue(ds))

\* host.replace(/:\d+$/, ""): a final colon followed by digits only is cut.
StripPort(host) ==
  LET cut == {i \in 1..Len(host) :
                /\ host[i] = ":"
                /\ i < Len(host)
                /\ \A j \in (i + 1)..Len(host) : host[j] \in Digits}
  IN IF cut = {} THEN host
     ELSE SubSeq(host, 1, (CHOOSE i \in cut : \A k \in cut : i <= k) - 1)

(***************************************************************************)
(* ipaddr.js, as far as server.js uses it.  The model covers IPv4          *)
(* addresses written as four decimal parts without leading zeros; the      *)
(* hosts and rules of the model are written that way or are no addresses.  *)
(***************************************************************************)
IsOctet(s) ==
  /\ s # <<>>
  /\ Len(s) <= 3
  /\ AllDigits(s)
  /\ (Len(s) > 1 => Head(s) # "0")
  /\ DecValue(s) <= 255

\* ipaddr.isValid(s)
IsValid(s) ==
  LET parts == Split(s, ".")
  IN Len(parts) = 4 /\ \A i \in 1..4 : IsOctet(parts[i])

\* ipaddr.parse(s).octets, for a valid s
Octets(s) == LET parts == Split(s, ".") IN [i \in 1..4 |-> DecValue(parts[i])]

\* x >> n
RECURSIVE ShiftRight(_, _)
ShiftRight(x, n) == IF n <= 0 THEN x ELSE ShiftRight(x \div 2, n - 1)

\* first[part] of matchCIDR; a missing element is undefined and shifts to 0.
Part(a, part) == IF part <= Len(a) THEN a[part] ELSE 0

\* ipaddr's matchCIDR(first, second, partSize, cidrBits): the loop
\* "while (cidrBits > 0)" compares part after part; it does not run at all
\* when cidrBits is NaN or not positive.
RECURSIVE MatchCIDR(_, _, _, _, _)
MatchCIDR(first, second, partSize, cidrBits, part) ==
  IF cidrBits.nan \/ cidrBits.v <= 0 THEN TRUE
  ELSE LET shift == Max(partSize - cidrBits.v, 0)
       IN IF ShiftRight(Part(first, part), shift) # ShiftRight(Part(second, part), shift)
            THEN FALSE
            ELSE MatchCIDR(first, second, partSize, Num(cidrBits.v - partSize), part + 1)

\* Lines 35-46.  ipaddr.parse throws for a string that is no address and the
\* catch answers false.
cidrContains(cidr, ipStr) ==
  IF ~Includes(cidr, "/") THEN FALSE
  ELSE LET parts  == Split(cidr, "/")
           netStr == parts[1]
           lenStr == parts[2]
           len    == ParseInt(lenStr)
       IN IF ~IsValid(ipStr) \/ ~IsValid(netStr) THEN FALSE
          ELSE MatchCIDR(Octets(ipStr), Octets(netStr), 8, len, 1)

(***************************************************************************)
(* The strings of the model.                                               *)
(***************************************************************************)
S_empty == <<>>
S_127_0_0_1 == <<"1", "2", "7", ".", "0", ".", "0", ".", "1">>
S_localhost == <<"l", "o", "c", "a", "l", "h", "o", "s", "t">>
S_10_8 == <<"1", "0", ".", "0", ".", "0", ".", "0", "/", "8">>
S_172_16_12 == <<"1", "7", "2", ".", "1", "6", ".", "0", ".", "0", "/", "1", "2">>
S_192_168_16 == <<"1", "9", "2", ".", "1", "6", "8", ".", "0", ".", "0", "/", "1", "6">>
S_10_x == <<"1", "0", ".", "0", ".", "0", ".", "0", "/", "x">>
S_10_1_2_3 == <<"1", "0", ".", "1", ".", "2", ".", "3">>
S_10_1_2_3_p80 == <<"1", "0", ".", "1", ".", "2", ".", "3", ":", "8", "0">>
S_172_31_0_1 == <<"1", "7", "2", ".", "3", "1", ".", "0", ".", "1">>
S_172_32_0_1 == <<"1", "7", "2", ".", "3", "2", ".", "0", ".", "1">>
S_8_8_8_8 == <<"8", ".", "8", ".", "8", ".", "8">>
S_localhost_p80 == <<"l", "o", "c", "a", "l", "h", "o", "s", "t", ":", "8", "0">>
S_evil_test == <<"e", "v", "i", "l", ".", "t", "e", "s", "t">>
S_lan_test == <<"l", "a", "n", ".", "t", "e", "s", "t">>

\* Line 20: the default of the ALLOWLIST environment variable.
DefaultAllowlistString ==
  <<"1", "2", "7", ".", "0", ".", "0", ".", "1", ",", "l", "o", "c", "a",
  "l", "h", "o", "s", "t", ",", "1", "0", ".", "0", ".", "0", ".", "0", "/",
  "8", ",", "1", "7", "2", ".", "1", "6", ".", "0", ".", "0", "/", "1", "2",
  ",", "1", "9", "2", ".", "1", "6", "8", ".", "0", ".", "0", "/", "1",
  "6">>

\* Line 20: .split(",").map(s => s.trim()).filter(Boolean)
ParseAllowlist(s) ==
  LET parts == Split(s, ",")
      trimmed == [i \in 1..Len(parts) |-> Trim(parts[i])]
  IN SelectSeq(trimmed, LAMBDA r : r # <<>>)

(***************************************************************************)
(* The authorizer: hostAllowedAsync(host), lines 48-81.                    *)
(***************************************************************************)
\* Lines 53-59: one rule against the address literal trimmed.
LiteralRuleMatches(rule, trimmed) ==
  IF Includes(rule, "/") THEN cidrContains(rule, trimmed)
  ELSE IF IsValid(rule) THEN trimmed = rule
  ELSE trimmed = rule

\* Lines 68-74: one rule against a resolved address addr of the host trimmed.
ResolvedRuleMatches(rule, addr, trimmed) ==
  IF Includes(rule, "/") THEN cidrContains(rule, addr)
  ELSE IF IsValid(rule) THEN addr = rule
  ELSE trimmed = rule

\* Lines 52-61: the loop over the rules returns true at the first match.
RECURSIVE LiteralLoop(_, _)
LiteralLoop(rules, trimmed) ==
  IF rules = <<>> THEN FALSE
  ELSE IF LiteralRuleMatches(Head(rules), trimmed) THEN TRUE
  ELSE LiteralLoop(Tail(rules), trimmed)

RECURSIVE RulesLoop(_, _, _)
RulesLoop(rules, addr, trimmed) ==
  IF rules = <<>> THEN FALSE
  ELSE IF ResolvedRuleMatches(Head(rules), addr, trimmed) THEN TRUE
  ELSE RulesLoop(Tail(rules), addr, trimmed)

\* Lines 65-77: the loop over the resolved addresses.
RECURSIVE ResolvedLoop(_, _, _)
ResolvedLoop(rules, addresses, trimmed) ==
  IF addresses = <<>> THEN FALSE
  ELSE IF RulesLoop(rules, Head(addresses), trimmed) THEN TRUE
  ELSE ResolvedLoop(rules, Tail(addresses), trimmed)

\* A call of hostAllowedAsync is a record: pc is "lookup" while dns.lookup is
\* awaited, "returned" when the call has answered result, "threw" when its
\* promise rejected; lookups counts the dns.lookup calls made; addresses is
\* the constant of line 65.
AuthReturn(host, result, lookups) ==
  [pc |-> "returned", host |-> host, result |-> result, lookups |-> lookups,
   dns |-> "none", addresses |-> <<>>]

\* Lines 49-64: the call up to its answer or to the await of dns.lookup.
AuthStart(rules, host) ==
  IF host = <<>> THEN AuthReturn(host, FALSE, 0)
  ELSE LET trimmed == StripPort(host)
       IN IF IsValid(trimmed)
            THEN AuthReturn(host, LiteralLoop(rules, trimmed), 0)
            ELSE [pc |-> "lookup", host |-> host, result |-> FALSE, lookups |-> 1,
                  dns |-> "pending", addresses |-> <<>>]

\* Lines 64-77: dns.lookup answered with records.
AuthResolved(rules, a, addresses) ==
  [a EXCEPT !.pc = "returned", !.dns = "ok", !.addresses = addresses,
            !.result = ResolvedLoop(rules, addresses, StripPort(a.host))]

\* Without the try/catch a failed lookup would reject the call.
AuthLookupFailedNoCatch(rules, a) ==
  [a EXCEPT !.pc = "threw", !.dns = "failed"]

\* Lines 78-80: dns.lookup failed; the catch answers false.
AuthLookupFailed(rules, a) ==
  [a EXCEPT !.pc = "returned", !.dns = "failed", !.result = FALSE]

(***************************************************************************)
(* SpecMap: one call of mapWithConcurrency on its own, with a worker fn    *)
(* that may throw, return at once, or return a promise that fulfils or     *)
(* rejects at any later time.                                              *)
(***************************************************************************)
\* What the worker gives for item x, and the error it fails with.
FnValue(x) == [item |-> x, res |-> "ok"]
FnError(x) == [thrown |-> x]

Idle == [pc |-> "idle"]

\* The items lists: <<>>, <<10>>, <<10, 20>>, ...
ItemsOf(n) == [i \in 1..n |-> 10 * i]

InitMap ==
  /\ \E n \in 0..MaxItems, limit \in 1..MaxLimit : mc = NewCall(ItemsOf(n), limit)
  /\ ALLOWLIST = <<>>
  /\ ha = Idle
  /\ req = <<>>
  /\ budget = 0
  /\ pool = "none"
  /\ probe = Idle

\* The for loop runs its next iteration (or returns); nothing else can run
\* while it does.
MapLoop ==
  /\ mc.pc = "loop"
  /\ \E b \in {"throw", "value", "reject", "pending"} :
       LET x == IF Len(mc.results) < Len(mc.items)
                  THEN mc.items[Len(mc.results) + 1] ELSE 0
       IN mc' = LoopStep(mc, b, IF b \in {"throw", "reject"}
                                  THEN FnError(x) ELSE FnValue(x))
  /\ UNCHANGED <<ALLOWLIST, ha, req, budget, pool, probe>>

\* The job at the head of the microtask queue runs.
MapMicro ==
  /\ mc.pc # "loop"
  /\ mc.mq # <<>>
  /\ mc' = MicroStep(mc)
  /\ UNCHANGED <<ALLOWLIST, ha, req, budget, pool, probe>>

\* A pending worker promise fulfils or rejects.
MapFnSettle ==
  /\ mc.pc # "loop"
  /\ \E p \in 1..Len(mc.qst), ok \in BOOLEAN :
       /\ mc.qst[p] = "pending"
       /\ mc' = FnSettled(mc, p, IF ok THEN "fulfilled" ELSE "rejected",
                          IF ok THEN FnValue(mc.items[p]) ELSE FnError(mc.items[p]))
  /\ UNCHANGED <<ALLOWLIST, ha, req, budget, pool, probe>>

NextMap == MapLoop \/ MapMicro \/ MapFnSettle

SpecMap == InitMap /\ [][NextMap]_vars

\* C1: in every state of a call with an integer limit >= 1, the workers that
\* were started and have not settled are at most limit.
C1_InFlightAtMostLimit ==
  mc.pc # "idle" => Cardinality(InFlight(mc)) <= mc.concurrency

\* C1 witness: limit workers are pending while items are still unstarted.
C1_Witness ==
  /\ mc.pc = "awaitRace"
  /\ Cardinality(InFlight(mc)) = mc.concurrency
  /\ Len(mc.results) < Len(mc.items)
  /\ mc.concurrency >= 2

\* C2: when the call completes, the output is as long as items and its i-th
\* element is the result of the worker of items[i].
C2_OutputPositional ==
  mc.pc = "done" =>
    /\ Len(mc.out) = Len(mc.items)
    /\ \A i \in 1..Len(mc.items) :
         /\ mc.out[i] = mc.pval[i]
         /\ mc.qst[i] = "fulfilled" => mc.out[i] = FnValue(mc.items[i])

\* C2 witness: a completed call of three workers that settled in the order
\* third, first, second, each result at its item's position.
C2_Witness ==
  /\ mc.pc = "done"
  /\ mc.order = <<3, 1, 2>>
  /\ mc.out = <<FnValue(10), FnValue(20), FnValue(30)>>

\* C3: the call never rejects; when it completes every item's worker was
\* started and has settled, a failed worker's position holds {error: ...}
\* and every other position holds its own worker's result.
C3_FailureIsolated ==
  /\ mc.pc # "rejected"
  /\ mc.pc = "done" =>
       /\ Len(mc.qst) = Len(mc.items)
       /\ Len(mc.out) = Len(mc.items)
       /\ \A i \in 1..Len(mc.items) :
            /\ mc.qst[i] # "pending"
            /\ mc.qst[i] = "rejected" => mc.out[i] = ErrorItem(FnError(mc.items[i]))
            /\ mc.qst[i] = "fulfilled" => mc.out[i] = FnValue(mc.items[i])

\* C3 witness: a completed call in which one worker failed and others did not.
C3_Witness ==
  /\ mc.pc = "done"
  /\ \E i, j \in 1..Len(mc.items) :
       /\ i < j
       /\ mc.qst[i] = "rejected"
       /\ mc.qst[j] = "fulfilled"
       /\ mc.out[i] = ErrorItem(FnError(mc.items[i]))
       /\ mc.out[j] = FnValue(mc.items[j])

\* C18: whenever the call has nothing left to run before the next I/O event
\* (the loop is suspended and no microtask is due) and an item is still
\* unstarted, limit workers are in flight: a free slot is filled at once,
\* without the completion of any other worker.
C18_GreedyAdmission ==
  (mc.pc # "idle" /\ Quiet(mc) /\ Len(mc.results) < Len(mc.items)) =>
    /\ mc.pc = "awaitRace"
    /\ Cardinality(InFlight(mc)) = mc.concurrency

\* C18 witness: with limit 2 and three items, the first worker has completed,
\* the second is still pending and the third has been started.
C18_Witness ==
  /\ mc.pc # "idle"
  /\ Quiet(mc)
  /\ mc.concurrency = 2
  /\ Len(mc.items) = 3
  /\ Len(mc.results) = 3
  /\ mc.pst[1] = "fulfilled"
  /\ mc.qst[2] = "pending"
  /\ mc.order = <<1>>

(***************************************************************************)
(* SpecAuth: one call of hostAllowedAsync, for every allowlist of at most  *)
(* MaxRules rules of RulePool in every order, every host of HostPool and   *)
(* every answer of dns.lookup.                                             *)
(***************************************************************************)
RulePool == {S_127_0_0_1, S_localhost, S_10_8, S_172_16_12, S_10_x}

HostPool ==
  {S_empty, S_127_0_0_1, S_10_1_2_3, S_10_1_2_3_p80, S_172_31_0_1, S_172_32_0_1,
   S_8_8_8_8, S_localhost, S_localhost_p80, S_evil_test, S_lan_test}

AddrPool == {S_127_0_0_1, S_10_1_2_3, S_8_8_8_8}

\* The sequences without repetition of at most n elements of S.
SeqsUpTo(S, n) ==
  UNION {{q \in [1..k -> S] : \A i, j \in 1..k : i # j => q[i] # q[j]} : k \in 0..n}

\* The answers of a successful dns.lookup(host, {all: true}).
RecordLists == SeqsUpTo(AddrPool, MaxRecords) \ {<<>>}

InitAuth ==
  /\ ALLOWLIST \in SeqsUpTo(RulePool, MaxRules)
  /\ ha = Idle
  /\ mc = Idle
  /\ req = <<>>
  /\ budget = 0
  /\ pool = "none"
  /\ probe = Idle

\* hostAllowedAsync(host) is called and runs to its answer or to its await.
AuthCall ==
  /\ ha.pc = "idle"
  /\ \E host \in HostPool : ha' = AuthStart(ALLOWLIST, host)
  /\ UNCHANGED <<mc, ALLOWLIST, req, budget, pool, probe>>

\* dns.lookup answers with addresses.
AuthDnsOk ==
  /\ ha.pc = "lookup"
  /\ \E addresses \in RecordLists : ha' = AuthResolved(ALLOWLIST, ha, addresses)
  /\ UNCHANGED <<mc, ALLOWLIST, req, budget, pool, probe>>

\* dns.lookup fails (NXDOMAIN, timeout, network error).
AuthDnsFail ==
  /\ ha.pc = "lookup"
  /\ ha' = AuthLookupFailed(ALLOWLIST, ha)
  /\ UNCHANGED <<mc, ALLOWLIST, req, budget, pool, probe>>

NextAuth == AuthCall \/ AuthDnsOk \/ AuthDnsFail

SpecAuth == InitAuth /\ [][NextAuth]_vars

RuleList == {ALLOWLIST[i] : i \in 1..Len(ALLOWLIST)}

\* C9: when the DNS lookup of a host fails, hostAllowedAsync has returned
\* false and has not thrown, also when the host equals a hostname rule.
C9_DnsFailureIsFalse ==
  (ha.pc # "idle" /\ ha.dns = "failed") => (ha.pc = "returned" /\ ha.result = FALSE)

\* C9 witness: the lookup of a host that is itself a rule of the allowlist
\* failed and the call answered false.
C9_Witness ==
  /\ ha.pc = "returned"
  /\ ha.dns = "failed"
  /\ ha.host \in RuleList
  /\ ha.result = FALSE

\* C10: for a host whose port-stripped value is an IP literal, the call
\* answers true exactly when some rule of the allowlist matches that address
\* (a CIDR block a.b.c.d/n with 0 <= n <= 32 that contains it, or an exact-IP
\* rule equal to it), whatever the order of the rules, and it makes no DNS
\* lookup.
C10_LiteralIffSomeRule ==
  LET \* bit k (1 the most significant, 32 the least) of the address o
      Bit(o, k) == (o[((k - 1) \div 8) + 1] \div (2 ^ (7 - ((k - 1) % 8)))) % 2
      WellFormed(rule) ==
        /\ Len(Split(rule, "/")) = 2
        /\ IsValid(Split(rule, "/")[1])
        /\ Split(rule, "/")[2] # <<>>
        /\ AllDigits(Split(rule, "/")[2])
        /\ DecValue(Split(rule, "/")[2]) <= 32
      Contains(rule, ip) ==
        /\ WellFormed(rule)
        /\ \A k \in 1..DecValue(Split(rule, "/")[2]) :
             Bit(Octets(ip), k) = Bit(Octets(Split(rule, "/")[1]), k)
      Matches(rule, ip) == Contains(rule, ip) \/ (IsValid(rule) /\ rule = ip)
  IN (ha.pc # "idle" /\ IsValid(StripPort(ha.host))) =>
       /\ ha.pc = "returned"
       /\ ha.lookups = 0
       /\ ha.result = (\E rule \in RuleList : Matches(rule, StripPort(ha.host)))

\* A CIDR rule a.b.c.d/n with 0 <= n <= 32.
IsCidrRule(rule) ==
  /\ Len(Split(rule, "/")) = 2
  /\ IsValid(Split(rule, "/")[1])
  /\ Split(rule, "/")[2] # <<>>
  /\ AllDigits(Split(rule, "/")[2])
  /\ DecValue(Split(rule, "/")[2]) <= 32

\* The first n bits of the addresses x and y (four octets each) agree.
SamePrefix(x, y, n) ==
  \A k \in 1..n :
    LET o == ((k - 1) \div 8) + 1
        w == 2 ^ (7 - ((k - 1) % 8))
    IN (x[o] \div w) % 2 = (y[o] \div w) % 2

\* The address addr matches a CIDR rule or an exact-IP rule of the allowlist.
AddressInAllowlist(addr) ==
  \E rule \in RuleList :
    \/ /\ IsCidrRule(rule)
       /\ IsValid(addr)
       /\ SamePrefix(Octets(addr), Octets(Split(rule, "/")[1]),
                     DecValue(Split(rule, "/")[2]))
    \/ IsValid(rule) /\ rule = addr

\* The string s is an exact-hostname rule of the allowlist.
IsHostnameRule(s) ==
  s \in RuleList /\ ~Includes(s, "/") /\ ~IsValid(s)

\* C11: when the DNS lookup of a hostname succeeded, hostAllowedAsync has
\* answered true exactly when some resolved address matches a CIDR or
\* exact-IP rule or an exact-hostname rule equals the host string as the
\* caller gave it.
C11_ResolvedIffRuleOrOriginalHost ==
  (ha.pc # "idle" /\ ha.dns = "ok") =>
    /\ ha.pc = "returned"
    /\ ha.result =
         \/ \E i \in 1..Len(ha.addresses) : AddressInAllowlist(ha.addresses[i])
         \/ IsHostnameRule(ha.host)

(***************************************************************************)
(* The probe: checkTcpPort(host, port, timeoutMs), lines 83-107.           *)
(* A socket is a record: open until socket.destroy(), resolved is the flag *)
(* of line 86, result is what the promise was resolved with.               *)
(***************************************************************************)
\* Line 23.
DEFAULT_TIMEOUT_MS == 2000

\* Lines 84-86: new net.Socket() and the flag resolved; the promise is
\* pending and nothing is connected yet.  log is the history of the calls
\* of socket.destroy and of resolve, events that of the events handled;
\* lookup is the state of the DNS lookup that socket.connect makes for a
\* host name and address the address the connection is attempted to.
NewSocket(host, port) ==
  [pc |-> "pending", host |-> host, port |-> port, open |-> FALSE,
   resolved |-> FALSE, listeners |-> {}, destroys |-> 0, calls |-> 0,
   log |-> <<>>, events |-> <<>>, result |-> None, thrown |-> "",
   lookup |-> "none", address |-> <<>>]

\* Line 105, socket.connect(port, host): an address is connected to as it
\* is; any other host string is first looked up.
Connect(k) ==
  IF IsValid(k.host) THEN [k EXCEPT !.open = TRUE, !.address = k.host]
  ELSE [k EXCEPT !.open = TRUE, !.lookup = "pending"]

\* Line 105: the lookup made by socket.connect answers; the connection is
\* attempted to the first address of the answer.
ConnectResolved(k, addresses) ==
  [k EXCEPT !.lookup = "ok", !.address = Head(addresses)]

\* Line 95, socket.setTimeout(timeoutMs): Node's getTimerDuration throws
\* ERR_OUT_OF_RANGE for a negative (or infinite) number of milliseconds.
SetTimeoutThrows(timeoutMs) == ~timeoutMs.nan /\ timeoutMs.v < 0

\* Lines 96-104: the result each socket event gives to onDone.  ev is
\* "connect", "timeout", the code of an error event, or the text of an
\* error without a code.
EventResultAllErrors(ev) ==
  CASE ev = "connect" -> [status |-> "open", error |-> ""]
    [] ev = "timeout" -> [status |-> "timeout", error |-> ""]
    [] OTHER -> [status |-> "error", error |-> ev]

EventResult(ev) ==
  CASE ev = "connect" -> [status |-> "open", error |-> ""]
    [] ev = "timeout" -> [status |-> "timeout", error |-> ""]
    [] ev = "ECONNREFUSED" -> [status |-> "closed", error |-> ev]
    [] OTHER -> [status |-> "error", error |-> ev]

\* Line 92: { host, port, ...result }
ProbeResult(host, port, r) ==
  [host |-> host, port |-> port, status |-> r.status, error |-> r.error]

\* resolve(value) of the promise: only the first settlement counts.
Resolve(k, value) ==
  [k EXCEPT !.calls = @ + 1, !.log = Append(@, "resolve"),
            !.pc = IF @ = "pending" THEN "fulfilled" ELSE @,
            !.result = IF k.pc = "pending" THEN value ELSE @]

\* socket.destroy()
Destroy(k) ==
  [k EXCEPT !.open = FALSE, !.destroys = @ + 1, !.log = Append(@, "destroy")]

\* onDone without the call of socket.destroy.
onDoneNoDestroy(k, r) ==
  IF k.resolved THEN k
  ELSE Resolve([k EXCEPT !.resolved = TRUE], ProbeResult(k.host, k.port, r))

\* Lines 88-93: onDone(result).
onDone(k, r) ==
  IF k.resolved THEN k
  ELSE Resolve(Destroy([k EXCEPT !.resolved = TRUE]), ProbeResult(k.host, k.port, r))

\* Lines 83-107: checkTcpPort(host, port, timeoutMs) up to its return.  A
\* throw inside the executor rejects the promise.
ProbeStart(host, port, timeoutMs) ==
  LET k == NewSocket(host, port)
  IN IF SetTimeoutThrows(timeoutMs)
       THEN [k EXCEPT !.pc = "rejected", !.thrown = "ERR_OUT_OF_RANGE"]
       ELSE Connect([k EXCEPT !.listeners = {"connect", "timeout", "error"}])

\* The listener an event goes to.
ListenerOf(ev) == IF ev \in {"connect", "timeout"} THEN ev ELSE "error"

\* Lines 96-104: the socket emits ev; a listener registered with once is
\* removed and then called.
Emit(k, ev) ==
  IF ListenerOf(ev) \notin k.listeners THEN k
  ELSE onDone([k EXCEPT !.listeners = @ \ {ListenerOf(ev)},
                        !.events = Append(@, ev)],
              EventResult(ev))

SocketEvents == {"connect", "timeout", "ECONNREFUSED", "EHOSTUNREACH"}

(***************************************************************************)
(* SpecProbe: one call of checkTcpPort, with the host, port and timeout    *)
(* values the handlers can pass, and a socket that emits its events in any *)
(* order, each kind at most once (the listeners are registered with once), *)
(* also after it was destroyed.                                            *)
(***************************************************************************)
ProbeHosts == {S_127_0_0_1, S_localhost_p80}

ProbePorts == {1, 80, MAX_PORT}

\* Number(timeout) || DEFAULT_TIMEOUT_MS is any number but 0 and NaN.
ProbeTimeouts == {Num(DEFAULT_TIMEOUT_MS), Num(1), Num(-1)}

\* The events of a socket: connect, timeout, and error with a code or, for
\* an error without a code, with its text.
ProbeEvents == SocketEvents \cup {"ECONNRESET", "Error: boom"}

InitProbe ==
  /\ probe = Idle
  /\ mc = Idle
  /\ ALLOWLIST = <<>>
  /\ ha = Idle
  /\ req = <<>>
  /\ budget = 0
  /\ pool = "none"

\* checkTcpPort(host, port, timeoutMs) is called.
ProbeCall ==
  /\ probe.pc = "idle"
  /\ \E host \in ProbeHosts, port \in ProbePorts, timeoutMs \in ProbeTimeouts :
       probe' = ProbeStart(host, port, timeoutMs)
  /\ UNCHANGED <<mc, ALLOWLIST, ha, req, budget, pool>>

\* The socket emits an event that has a listener.
ProbeEvent ==
  /\ probe.pc # "idle"
  /\ \E ev \in ProbeEvents :
       /\ ListenerOf(ev) \in probe.listeners
       /\ probe' = Emit(probe, ev)
  /\ UNCHANGED <<mc, ALLOWLIST, ha, req, budget, pool>>

NextProbe == ProbeCall \/ ProbeEvent

SpecProbe == InitProbe /\ [][NextProbe]_vars

\* C12: once a socket event has occurred the call has delivered exactly one
\* result, the one of the first event: connect gives open, timeout gives
\* timeout, an error with code ECONNREFUSED gives closed with the code, any
\* other error gives error with its code; before any event nothing is
\* delivered, and later events change nothing and deliver nothing.
C12_FirstEventFixesResult ==
  probe.pc # "idle" =>
    /\ probe.events = <<>> => probe.calls = 0
    /\ probe.events # <<>> =>
         LET first == probe.events[1]
         IN /\ probe.pc = "fulfilled"
            /\ probe.calls = 1
            /\ probe.result.host = probe.host
            /\ probe.result.port = probe.port
            /\ first = "connect" =>
                 (probe.result.status = "open" /\ probe.result.error = "")
            /\ first = "timeout" =>
                 (probe.result.status = "timeout" /\ probe.result.error = "")
            /\ first = "ECONNREFUSED" =>
                 (probe.result.status = "closed" /\ probe.result.error = "ECONNREFUSED")
            /\ first \notin {"connect", "timeout", "ECONNREFUSED"} =>
                 (probe.result.status = "error" /\ probe.result.error = first)

\* C12 witness: the connection was refused, then the timeout and a connect
\* followed; the result is still closed and was delivered once.
C12_Witness ==
  /\ probe.pc = "fulfilled"
  /\ probe.events = <<"ECONNREFUSED", "timeout", "connect">>
  /\ probe.result.status = "closed"
  /\ probe.calls = 1

\* C13: the socket of a probe is destroyed at most once; once an event
\* (connect, timeout, refused, other error) has occurred it has been destroyed
\* exactly once, before the result was delivered, and it is not open when
\* the probe has resolved, however many events follow.
C13_DestroyedExactlyOnce ==
  probe.pc # "idle" =>
    /\ probe.destroys <= 1
    /\ probe.events # <<>> =>
         (probe.destroys = 1 /\ probe.log = <<"destroy", "resolve">>)
    /\ probe.pc = "fulfilled" => (probe.destroys = 1 /\ ~probe.open)

\* C13 witness: three events fired for a socket that was open; it was
\* destroyed once and is closed.
C13_Witness ==
  /\ probe.pc = "fulfilled"
  /\ Len(probe.events) = 3
  /\ probe.events[1] = "timeout"
  /\ probe.destroys = 1
  /\ ~probe.open

(***************************************************************************)
(* The request handlers.  A request is a record:                           *)
(*   pc      "new": not yet received; "auth": awaiting hostAllowedAsync;   *)
(*           "probing": awaiting checkTcpPort; "scanning": awaiting        *)
(*           mapWithConcurrency; "responded": the response was sent;       *)
(*           "failed": the handler threw (its promise rejected) and sent   *)
(*           no response                                                   *)
(*   auth    the call of hostAllowedAsync; authCalls counts the calls made *)
(*   call    the call of mapWithConcurrency                                *)
(*   socks   the sockets created for the request, in creation order        *)
(*   status, error, results   the response                                 *)
(***************************************************************************)
\* Number(s) of a query string s: "" is 0, an optionally signed run of
\* digits is its value, anything else NaN.
NumberOf(s) ==
  LET t    == Trim(s)
      neg  == t # <<>> /\ Head(t) = "-"
      body == IF t # <<>> /\ Head(t) \in {"-", "+"} THEN Tail(t) ELSE t
  IN IF t = <<>> THEN Num(0)
     ELSE IF body = <<>> \/ ~AllDigits(body) THEN NaN
     ELSE Num(IF neg THEN 0 - DecValue(body) ELSE DecValue(body))

\* !x of a number x
Falsy(x) == x.nan \/ x.v = 0

NewRequest ==
  [kind |-> "none", pc |-> "new", host |-> <<>>, port |-> NaN, start |-> NaN,
   end |-> NaN, concurrency |-> NaN, requested |-> NaN, timeoutMs |-> NaN,
   auth |-> Idle, authCalls |-> 0,
   call |-> Idle, socks |-> <<>>, status |-> 0, error |-> "", results |-> <<>>,
   scanned_count |-> 0]

Respond(rq, status, error) ==
  [rq EXCEPT !.pc = "responded", !.status = status, !.error = error]

\* Line 136: checkTcpPort is called and awaited; the handler throws when
\* the promise is rejected.
CheckProbe(rq) ==
  LET k == ProbeStart(rq.host, rq.port.v, rq.timeoutMs)
  IN [rq EXCEPT !.pc = IF k.pc = "rejected" THEN "failed" ELSE "probing",
                !.socks = <<k>>]

\* The handler without the test of line 133.
CheckAfterAuthNoDeny(rq) ==
  IF rq.port.v < 1 \/ rq.port.v > MAX_PORT
    THEN Respond(rq, 400, "port out of range")
  ELSE CheckProbe(rq)

\* Lines 133-136: the /tcp/check handler once hostAllowedAsync has answered.
CheckAfterAuth(rq) ==
  IF ~rq.auth.result THEN Respond(rq, 403, "host not allowed by server policy")
  ELSE IF rq.port.v < 1 \/ rq.port.v > MAX_PORT
    THEN Respond(rq, 400, "port out of range")
  ELSE CheckProbe(rq)

\* Number(x) || DEFAULT_TIMEOUT_MS of lines 129 and 142.
TimeoutOf(x) == IF Falsy(x) THEN Num(DEFAULT_TIMEOUT_MS) ELSE x

\* Lines 127-132: the /tcp/check handler up to its first await that waits.
CheckStart(rules, hostQuery, portQuery, timeoutQuery) ==
  LET host == Trim(hostQuery)
      port == NumberOf(portQuery)
      rq   == [NewRequest EXCEPT !.kind = "check", !.host = host, !.port = port,
                                 !.timeoutMs = TimeoutOf(NumberOf(timeoutQuery))]
  IN IF host = <<>> \/ Falsy(port) THEN Respond(rq, 400, "missing host or port")
     ELSE LET a == AuthStart(rules, host)
              r1 == [rq EXCEPT !.auth = a, !.authCalls = @ + 1, !.pc = "auth"]
          IN IF a.pc = "returned" THEN CheckAfterAuth(r1) ELSE r1

\* Lines 136-137: checkTcpPort resolved; the response is sent.
CheckDone(rq) ==
  [Respond(rq, 200, "") EXCEPT !.results = <<rq.socks[1].result>>]

\* mapWithConcurrency with fn = (port) => checkTcpPort(host, port, timeoutMs)
\* runs until it has to wait: the loop iterations and the microtasks that
\* are due.  checkTcpPort returns a pending promise, or a rejected one when
\* its executor threw.  RunSteps runs at most n steps, halving n so that
\* long runs nest no deeper than log n.
RunStep(c, host, timeoutMs) ==
  IF c.pc # "loop" THEN MicroStep(c)
  ELSE IF Len(c.results) = Len(c.items) THEN LoopStep(c, "pending", None)
  ELSE LET k == ProbeStart(host, c.items[Len(c.results) + 1], timeoutMs)
       IN IF k.pc = "rejected" THEN LoopStep(c, "reject", k.thrown)
          ELSE LoopStep(c, "pending", None)

RECURSIVE RunSteps(_, _, _, _)
RunSteps(c, n, host, timeoutMs) ==
  IF Quiet(c) \/ n = 0 THEN c
  ELSE IF n = 1 THEN RunStep(c, host, timeoutMs)
  ELSE RunSteps(RunSteps(c, n \div 2, host, timeoutMs), n - (n \div 2),
                host, timeoutMs)

\* More steps than a call of this many items can ever take.
StepBound(c) == 4 * (Len(c.items) + 2) * (Len(c.items) + 2)

RunCall(c, host, timeoutMs) == RunSteps(c, StepBound(c), host, timeoutMs)

\* Lines 164-166: the scan runs on; a socket is created for every worker
\* started (line 164, checkTcpPort(host, port, timeoutMs)) and the response
\* is sent when mapWithConcurrency is done.
ScanRun(rq, c0) ==
  LET c  == RunCall(c0, rq.host, rq.timeoutMs)
      sk == rq.socks \o
            [i \in 1..(Len(c.results) - Len(rq.socks)) |->
               ProbeStart(rq.host, c.items[Len(rq.socks) + i], rq.timeoutMs)]
      r1 == [rq EXCEPT !.call = c, !.socks = sk, !.pc = "scanning"]
  IN IF c.pc = "done"
       THEN [Respond(r1, 200, "") EXCEPT !.results = c.out,
                                        !.scanned_count = Len(c.out)]
       ELSE r1

\* Line 157: the test of the size of the range.
RangeTooLargeNever(count) == FALSE

RangeTooLarge(count) == count > MAX_PORT_RANGE

\* Line 160: the clamp of the concurrency.
ClampConcurrencyMissing(concurrency) == Max(1, concurrency)

ClampConcurrency(concurrency) == Max(1, Min(MAX_CONCURRENCY, concurrency))

\* Lines 152-153: start and end are clamped to the port numbers.
ClampPortNot(x) == x

ClampPort(x) == Max(1, Min(MAX_PORT, x))

\* The handler without the ordering of lines 154-155.
NormalizeRangeNoSwap(start, end) ==
  [min |-> ClampPort(start), max |-> ClampPort(end)]

\* Lines 152-155: s, e, min and max.
NormalizeRange(start, end) ==
  LET s == ClampPort(start)
      e == ClampPort(end)
  IN [min |-> Min(s, e), max |-> Max(s, e)]

\* Lines 150-164: the /tcp/scan-range handler once hostAllowedAsync has
\* answered.
ScanAfterAuth(rq) ==
  IF ~rq.auth.result THEN Respond(rq, 403, "host not allowed by server policy")
  ELSE LET range == NormalizeRange(rq.start.v, rq.end.v)
           min   == range.min
           max   == range.max
           count == max - min + 1
       IN IF RangeTooLarge(count) THEN Respond(rq, 400, "range too large")
          ELSE LET concurrency == ClampConcurrency(rq.concurrency.v)
                   ports == [i \in 1..count |-> min + i - 1]
               IN ScanRun([rq EXCEPT !.concurrency = Num(concurrency)],
                          NewCall(ports, concurrency))

\* The handler without the default of line 143.
DefaultConcurrencyNone(concurrency) == concurrency

\* Line 143: Number(req.body?.concurrency) || Math.min(MAX_CONCURRENCY, 20)
DefaultConcurrency(concurrency) ==
  IF Falsy(concurrency) THEN Num(Min(MAX_CONCURRENCY, 20)) ELSE concurrency

\* Lines 141-149: the /tcp/scan-range handler up to its first await that
\* waits.  start and end are NaN when the body holds no integer there;
\* concurrency is Number(req.body?.concurrency), timeout is
\* Number(req.body?.timeout).
ScanStart(rules, host, start, end, concurrency, timeout) ==
  LET conc == DefaultConcurrency(concurrency)
      rq   == [NewRequest EXCEPT !.kind = "scan", !.host = host, !.start = start,
                                 !.end = end, !.concurrency = conc,
                                 !.requested = concurrency,
                                 !.timeoutMs = TimeoutOf(timeout)]
  IN IF host = <<>> \/ start.nan \/ end.nan
       THEN Respond(rq, 400, "body must include host, start, end (integers)")
     ELSE LET a == AuthStart(rules, host)
              r1 == [rq EXCEPT !.auth = a, !.authCalls = @ + 1, !.pc = "auth"]
          IN IF a.pc = "returned" THEN ScanAfterAuth(r1) ELSE r1

\* hostAllowedAsync has answered: the handler that awaited it goes on.
AfterAuth(rq) ==
  IF rq.kind = "check" THEN CheckAfterAuth(rq) ELSE ScanAfterAuth(rq)

\* A socket event reaches socket i of the request: onDone resolves the
\* probe's promise and the handler or the scheduler that awaits it goes on.
AfterSocketEvent(rq, i, ev) ==
  LET k  == Emit(rq.socks[i], ev)
      r1 == [rq EXCEPT !.socks[i] = k]
  IN IF rq.kind = "check" THEN CheckDone(r1)
     ELSE ScanRun(r1, FnSettled(rq.call, i, "fulfilled", k.result))

\* The sockets of a request that are open.
OpenSockets(rq) == {i \in 1..Len(rq.socks) : rq.socks[i].open}

(***************************************************************************)
(* SpecServer and SpecLoad: the server with the default allowlist serving  *)
(* MaxReqs requests concurrently.  SpecServer takes small requests and     *)
(* lets them run to their response; SpecLoad takes requests that open many *)
(* sockets and delivers few socket events.  SpecParams serves one request  *)
(* for an authorized address with every kind of timeout and concurrency    *)
(* parameter and lets it run to its end (requests share no state but the   *)
(* allowlist, which is never written).                                     *)
(***************************************************************************)
S_80 == <<"8", "0">>
S_0 == <<"0">>
S_70000 == <<"7", "0", "0", "0", "0">>
S_minus1 == <<"-", "1">>
S_x == <<"x">>
S_65535 == <<"6", "5", "5", "3", "5">>
S_5 == <<"5">>

Reqs ==
  IF pool = "load" THEN 1..MaxLoadReqs
  ELSE IF pool = "small" THEN 1..MaxReqs
  ELSE {1}

\* The host parameter of the requests.
ServerHosts(pl) ==
  IF pl = "small" THEN {S_empty, S_127_0_0_1, S_8_8_8_8, S_localhost}
  ELSE IF pl = "dns" THEN {S_lan_test, S_evil_test}
  ELSE {S_127_0_0_1}

\* The answers of the DNS lookups of the requests' hosts.
DnsAnswers(pl) ==
  IF pl = "dns" THEN RecordLists
  ELSE {<<S_8_8_8_8>>, <<S_8_8_8_8, S_127_0_0_1>>}

\* The socket events delivered to the probes.
EventsOf(pl) == IF pl = "load" THEN {"timeout"} ELSE SocketEvents

\* Requests are numbered in the order of their arrival.
NextRequest(r) == req[r].pc = "new" /\ \A q \in Reqs : q < r => req[q].pc # "new"

\* The port parameter of /tcp/check.
PortQueries(pl) ==
  IF pl = "small" THEN {S_empty, S_0, S_80, S_70000, S_minus1, S_x}
  ELSE IF pl \in {"load", "dns"} THEN {S_80}
  ELSE {S_80, S_65535}

\* start and end of /tcp/scan-range.
Ranges(pl) ==
  IF pl = "small"
    THEN {<<Num(1), Num(2)>>, <<Num(2), Num(1)>>, <<Num(70000), Num(80000)>>,
          <<Num(1), Num(201)>>, <<Num(-5), Num(1)>>, <<NaN, Num(2)>>}
  ELSE IF pl = "load" THEN {<<Num(1), Num(60)>>}
  ELSE IF pl = "dns" THEN {<<Num(1), Num(2)>>}
  ELSE {<<Num(1), Num(3)>>, <<Num(3), Num(1)>>, <<Num(-5), Num(2)>>,
        <<Num(70000), Num(65534)>>, <<Num(7), Num(7)>>}

\* The timeout parameter of /tcp/check.
TimeoutQueries(pl) ==
  IF pl = "params" THEN {S_empty, S_0, S_5, S_minus1, S_x} ELSE {S_empty}

\* Number(req.body?.timeout)
Timeouts(pl) == IF pl = "params" THEN {NaN, Num(5), Num(-1)} ELSE {NaN}

\* Number(req.body?.concurrency)
Concurrencies(pl) ==
  IF pl = "small" THEN {NaN, Num(1), Num(2)}
  ELSE IF pl = "load" THEN {Num(1000)}
  ELSE IF pl = "dns" THEN {NaN, Num(1)}
  ELSE {NaN, Num(0), Num(-3), Num(1), Num(2), Num(50), Num(51)}

InitServer ==
  /\ pool = "small"
  /\ ALLOWLIST = ParseAllowlist(DefaultAllowlistString)
  /\ req = [r \in Reqs |-> NewRequest]
  /\ budget = MaxEvents
  /\ mc = Idle
  /\ ha = Idle
  /\ probe = Idle

InitLoad ==
  /\ pool = "load"
  /\ ALLOWLIST = ParseAllowlist(DefaultAllowlistString)
  /\ req = [r \in Reqs |-> NewRequest]
  /\ budget = MaxLoadEvents
  /\ mc = Idle
  /\ ha = Idle
  /\ probe = Idle

\* GET /tcp/check arrives.
CheckRequest ==
  /\ \E r \in Reqs, host \in ServerHosts(pool), port \in PortQueries(pool),
        timeout \in TimeoutQueries(pool) :
       /\ NextRequest(r)
       /\ req' = [req EXCEPT ![r] = CheckStart(ALLOWLIST, host, port, timeout)]
  /\ UNCHANGED <<mc, ALLOWLIST, ha, budget, pool, probe>>

\* POST /tcp/scan-range arrives.
ScanRequest ==
  /\ \E r \in Reqs, host \in ServerHosts(pool), rg \in Ranges(pool),
        concurrency \in Concurrencies(pool), timeout \in Timeouts(pool) :
       /\ NextRequest(r)
       /\ req' = [req EXCEPT ![r] =
                    ScanStart(ALLOWLIST, host, rg[1], rg[2], concurrency, timeout)]
  /\ UNCHANGED <<mc, ALLOWLIST, ha, budget, pool, probe>>

\* dns.lookup of a request answers with addresses.
DnsOk ==
  /\ \E r \in Reqs, addresses \in DnsAnswers(pool) :
       /\ req[r].pc = "auth"
       /\ req' = [req EXCEPT ![r] =
                    AfterAuth([@ EXCEPT !.auth = AuthResolved(ALLOWLIST, @, addresses)])]
  /\ UNCHANGED <<mc, ALLOWLIST, ha, budget, pool, probe>>

\* dns.lookup of a request fails.
DnsFail ==
  /\ \E r \in Reqs :
       /\ req[r].pc = "auth"
       /\ req' = [req EXCEPT ![r] =
                    AfterAuth([@ EXCEPT !.auth = AuthLookupFailed(ALLOWLIST, @)])]
  /\ UNCHANGED <<mc, ALLOWLIST, ha, budget, pool, probe>>

\* The sockets of a request whose connect is waiting for its DNS lookup.
LookingUp(rq) ==
  {i \in OpenSockets(rq) : rq.socks[i].lookup = "pending"}

\* The DNS lookup made by socket.connect answers with addresses.
ConnectLookupOk ==
  /\ \E r \in Reqs, addresses \in DnsAnswers(pool) :
       \E i \in LookingUp(req[r]) :
         req' = [req EXCEPT ![r].socks[i] = ConnectResolved(@, addresses)]
  /\ UNCHANGED <<mc, ALLOWLIST, ha, budget, pool, probe>>

\* The DNS lookup made by socket.connect fails: the socket emits an error.
ConnectLookupFail ==
  /\ \E r \in Reqs :
       \E i \in LookingUp(req[r]) :
         req' = [req EXCEPT ![r] =
                   AfterSocketEvent([@ EXCEPT !.socks[i].lookup = "failed"],
                                    i, "ENOTFOUND")]
  /\ UNCHANGED <<mc, ALLOWLIST, ha, budget, pool, probe>>

\* An open socket gets its connect, timeout or error event; before the
\* lookup of its host has answered only the timeout can occur.
SocketEvent ==
  /\ budget > 0
  /\ \E r \in Reqs, ev \in EventsOf(pool) :
       \E i \in OpenSockets(req[r]) :
         /\ i \in LookingUp(req[r]) => ev = "timeout"
         /\ req' = [req EXCEPT ![r] = AfterSocketEvent(@, i, ev)]
  /\ budget' = budget - 1
  /\ UNCHANGED <<mc, ALLOWLIST, ha, pool, probe>>

\* In SpecServer the lookup that socket.connect makes for a host name does
\* not answer before the probe's timeout.
NextServer == CheckRequest \/ ScanRequest \/ DnsOk \/ DnsFail \/ SocketEvent

SpecServer == InitServer /\ [][NextServer]_vars

\* The large requests name the host by its address: no DNS lookup is made.
NextLoad == CheckRequest \/ ScanRequest \/ SocketEvent

SpecLoad == InitLoad /\ [][NextLoad]_vars

InitParams ==
  /\ pool = "params"
  /\ ALLOWLIST = ParseAllowlist(DefaultAllowlistString)
  /\ req = [r \in Reqs |-> NewRequest]
  /\ budget = MaxScanEvents
  /\ mc = Idle
  /\ ha = Idle
  /\ probe = Idle

\* The requests name the host by its address: no DNS lookup is made.
NextParams == CheckRequest \/ ScanRequest \/ SocketEvent

SpecParams == InitParams /\ [][NextParams]_vars

\* Some started probe still has its socket open and an event can reach it:
\* the condition under which SocketEvent can act.
EventDue == budget > 0 /\ \E r \in Reqs : OpenSockets(req[r]) # {}

\* The step of SocketEvent as seen on the count of events: SocketEvent is the
\* only action that changes budget.
EventStep == EventDue /\ budget' = budget - 1

\* SpecParams where an open socket of a probe eventually gets an event (at
\* the latest the timeout set at line 95).
SpecParamsFair == SpecParams /\ WF_budget(EventStep)

\* SpecRebind: one request for a host name; the lookup of the authorizer
\* and the lookups of the connects are answered independently.
InitRebind ==
  /\ pool = "dns"
  /\ ALLOWLIST = ParseAllowlist(DefaultAllowlistString)
  /\ req = [r \in Reqs |-> NewRequest]
  /\ budget = MaxScanEvents
  /\ mc = Idle
  /\ ha = Idle
  /\ probe = Idle

NextRebind ==
  \/ CheckRequest
  \/ ScanRequest
  \/ DnsOk
  \/ DnsFail
  \/ ConnectLookupOk
  \/ ConnectLookupFail
  \/ SocketEvent

SpecRebind == InitRebind /\ [][NextRebind]_vars

\* The probe sockets open in the process, over all requests.
AllOpenSockets == UNION {{<<r, i>> : i \in OpenSockets(req[r])} : r \in Reqs}

\* C4 as claimed: the probe sockets open in the process, over all the
\* requests being served, are at most MAX_CONCURRENCY.
C4_ProcessCeiling == Cardinality(AllOpenSockets) <= MAX_CONCURRENCY

\* C4 as amended: the probe sockets open for one /tcp/scan-range request are
\* at most MAX_CONCURRENCY, those of one /tcp/check request at most one.
C4_RequestCeiling ==
  \A r \in Reqs :
    /\ Cardinality(OpenSockets(req[r])) <= MAX_CONCURRENCY
    /\ req[r].kind = "check" => Cardinality(OpenSockets(req[r])) <= 1

\* C4 witness: a scan that asked for a concurrency of 1000 has
\* MAX_CONCURRENCY sockets open and ports still waiting.
C4_Witness ==
  \E r \in Reqs :
    /\ req[r].kind = "scan"
    /\ req[r].pc = "scanning"
    /\ Cardinality(OpenSockets(req[r])) = MAX_CONCURRENCY
    /\ Len(req[r].socks) < Len(req[r].call.items)

\* A scan request for start = 70000 and end = 80000 whose host was authorized
\* and whose handler has gone on after the authorization.
IsScan70000(rq) ==
  /\ rq.kind = "scan"
  /\ rq.start = Num(70000)
  /\ rq.end = Num(80000)
  /\ rq.auth.pc = "returned"
  /\ rq.auth.result

\* C5 as claimed: a scan of an authorized host with start = 70000 and
\* end = 80000 is answered 400 and starts no probe.
C5_Rejected ==
  \A r \in Reqs :
    IsScan70000(req[r]) =>
      /\ req[r].socks = <<>>
      /\ req[r].pc = "responded"
      /\ req[r].status = 400

\* C5 as amended: such a scan is clamped to the single port 65535: exactly
\* one probe is started, for port 65535, and the answer is 200 with that one
\* probe's result.
C5_ClampedToLastPort ==
  \A r \in Reqs :
    IsScan70000(req[r]) =>
      /\ Len(req[r].socks) = 1
      /\ req[r].socks[1].port = 65535
      /\ req[r].pc \in {"scanning", "responded"}
      /\ req[r].pc = "responded" =>
           /\ req[r].status = 200
           /\ Len(req[r].results) = 1
           /\ req[r].socks[1].pc = "fulfilled" =>
                req[r].results[1] = req[r].socks[1].result

\* C5 witness: the scan of 70000..80000 was answered 200 with the result of
\* port 65535.
C5_Witness ==
  \E r \in Reqs :
    /\ IsScan70000(req[r])
    /\ req[r].status = 200
    /\ Len(req[r].results) = 1
    /\ req[r].socks[1].pc = "fulfilled"
    /\ req[r].results[1].port = 65535

\* The port count max - min + 1 of the normalized range of a scan request
\* whose start and end are integers.
NormalizedCount(rq) ==
  LET lo(x) == IF x < 1 THEN 1 ELSE IF x > 65535 THEN 65535 ELSE x
      s == lo(rq.start.v)
      e == lo(rq.end.v)
  IN (IF s >= e THEN s - e ELSE e - s) + 1

HasRange(rq) == rq.kind = "scan" /\ ~rq.start.nan /\ ~rq.end.nan

\* C6 as claimed: every scan request whose normalized range has more than
\* MAX_PORT_RANGE ports is answered 400 and starts no probe, and no request
\* starts more than MAX_PORT_RANGE probes.
C6_TooLargeIs400 ==
  \A r \in Reqs :
    /\ Len(req[r].socks) <= MAX_PORT_RANGE
    /\ (HasRange(req[r]) /\ NormalizedCount(req[r]) > MAX_PORT_RANGE) =>
         /\ req[r].socks = <<>>
         /\ req[r].pc = "responded" => req[r].status = 400

\* C6 as amended: such a request starts no probe and is answered 400 when
\* its host is authorized (or missing) and 403 when its host is not
\* authorized; no request starts more than MAX_PORT_RANGE probes.
C6_TooLargeNoProbe ==
  \A r \in Reqs :
    /\ Len(req[r].socks) <= MAX_PORT_RANGE
    /\ (HasRange(req[r]) /\ NormalizedCount(req[r]) > MAX_PORT_RANGE) =>
         /\ req[r].socks = <<>>
         /\ req[r].pc \in {"new", "auth", "responded"}
         /\ req[r].pc = "responded" =>
              req[r].status =
                IF req[r].host # <<>> /\ ~req[r].auth.result THEN 403 ELSE 400

\* C6 witness: a range of 201 ports for an authorized host was answered 400
\* without a probe.
C6_Witness ==
  \E r \in Reqs :
    /\ HasRange(req[r])
    /\ NormalizedCount(req[r]) = MAX_PORT_RANGE + 1
    /\ req[r].auth.pc = "returned"
    /\ req[r].auth.result
    /\ req[r].status = 400
    /\ req[r].error = "range too large"
    /\ req[r].socks = <<>>

\* C7: a /tcp/check request with a host and a port number outside
\* [1, 65535] is answered 400 whatever the host, before the authorizer is
\* called (no call of hostAllowedAsync, no DNS lookup).
C7_PortRangeBeforeAuth ==
  \A r \in Reqs :
    (/\ req[r].kind = "check"
     /\ req[r].host # <<>>
     /\ ~req[r].port.nan
     /\ (req[r].port.v < 1 \/ req[r].port.v > 65535)) =>
      /\ req[r].pc = "responded"
      /\ req[r].status = 400
      /\ req[r].authCalls = 0

\* The request passed the field validation of its handler (line 131, line 145).
PassedValidation(rq) ==
  /\ rq.host # <<>>
  /\ rq.kind = "check" => ~(rq.port.nan \/ rq.port.v = 0)
  /\ rq.kind = "scan" => (~rq.start.nan /\ ~rq.end.nan)

\* C8: a request that passed field validation has made exactly one call of
\* the authorizer; a probe exists only if that call returned true; if it
\* returned false the response is 403 and the request has no probe.
C8_AuthorizeThenProbe ==
  \A r \in Reqs :
    /\ (req[r].pc # "new" /\ PassedValidation(req[r])) => req[r].authCalls = 1
    /\ req[r].socks # <<>> =>
         (req[r].authCalls = 1 /\ req[r].auth.pc = "returned" /\ req[r].auth.result)
    /\ (req[r].auth.pc = "returned" /\ ~req[r].auth.result) =>
         (req[r].pc = "responded" /\ req[r].status = 403 /\ req[r].socks = <<>>)

\* C8 witness: /tcp/check for host 8.8.8.8 and port 80 was answered 403 after
\* one call of the authorizer, with no probe.
C8_Witness ==
  \E r \in Reqs :
    /\ req[r].kind = "check"
    /\ req[r].host = S_8_8_8_8
    /\ req[r].port = Num(80)
    /\ req[r].authCalls = 1
    /\ req[r].status = 403
    /\ req[r].socks = <<>>

\* C14: no call of checkTcpPort made by a handler throws or rejects, no
\* handler fails on it, and every /tcp/check request that reached the probe
\* and was answered got a 200 response with a ProbeResult.
C14_ProbeNeverRejects ==
  \A r \in Reqs :
    /\ \A i \in 1..Len(req[r].socks) : req[r].socks[i].pc # "rejected"
    /\ req[r].pc # "failed"
    /\ (req[r].kind = "check" /\ req[r].socks # <<>> /\ req[r].pc = "responded") =>
         (req[r].status = 200 /\ req[r].results = <<req[r].socks[1].result>>)

\* The scan requests whose handler has called mapWithConcurrency.
Scheduled(rq) == rq.kind = "scan" /\ rq.call.pc # "idle"

\* C15 as claimed: the concurrency given to the scheduler is the requested
\* number clamped into [1, MAX_CONCURRENCY]: 1 for every number below 1
\* (0 and negatives included), 50 for every number above 50, and an integer
\* of [1, 50] unchanged.
C15_ClampedRequest ==
  \A r \in Reqs :
    (Scheduled(req[r]) /\ ~req[r].requested.nan) =>
      req[r].call.concurrency =
        (IF req[r].requested.v < 1 THEN 1
         ELSE IF req[r].requested.v > 50 THEN 50
         ELSE req[r].requested.v)

\* C15 as amended: a requested concurrency that is missing, not a number or
\* 0 gives the default 20; every other number below 1 gives 1, every number
\* above 50 gives 50, and an integer of [1, 50] is used unchanged.
C15_ClampedOrDefault ==
  \A r \in Reqs :
    Scheduled(req[r]) =>
      req[r].call.concurrency =
        (IF req[r].requested.nan \/ req[r].requested.v = 0 THEN 20
         ELSE IF req[r].requested.v < 1 THEN 1
         ELSE IF req[r].requested.v > 50 THEN 50
         ELSE req[r].requested.v)

\* C15 witness: a scan that asked for a concurrency of 0 runs with 20.
C15_Witness ==
  \E r \in Reqs :
    /\ Scheduled(req[r])
    /\ req[r].requested = Num(0)
    /\ req[r].call.concurrency = 20

\* The least and the greatest port of the normalized range of a scan.
LowPort(rq) ==
  LET lo(x) == IF x < 1 THEN 1 ELSE IF x > 65535 THEN 65535 ELSE x
  IN IF lo(rq.start.v) <= lo(rq.end.v) THEN lo(rq.start.v) ELSE lo(rq.end.v)

HighPort(rq) ==
  LET lo(x) == IF x < 1 THEN 1 ELSE IF x > 65535 THEN 65535 ELSE x
  IN IF lo(rq.start.v) <= lo(rq.end.v) THEN lo(rq.end.v) ELSE lo(rq.start.v)

\* What the probe behind socket k of a scan gave to the scheduler.
Outcome(k) == IF k.pc = "rejected" THEN ErrorItem(k.thrown) ELSE k.result

\* C16: the 200 response of a scan holds exactly max - min + 1 results, the
\* i-th being the outcome of the probe of port min + i - 1, where min and
\* max are the clamped start and end in ascending order (whichever of the
\* two was given first); scanned_count is that number.
C16_OneResultPerPortAscending ==
  \A r \in Reqs :
    (req[r].kind = "scan" /\ req[r].pc = "responded" /\ req[r].status = 200) =>
      LET n == HighPort(req[r]) - LowPort(req[r]) + 1
      IN /\ Len(req[r].results) = n
         /\ req[r].scanned_count = n
         /\ Len(req[r].socks) = n
         /\ \A i \in 1..n :
              /\ req[r].socks[i].port = LowPort(req[r]) + i - 1
              /\ req[r].socks[i].host = req[r].host
              /\ req[r].results[i] = Outcome(req[r].socks[i])

\* C16 witness: a scan with start = 3 and end = 1 answered with the results
\* of ports 1, 2, 3 in this order.
C16_Witness ==
  \E r \in Reqs :
    /\ req[r].kind = "scan"
    /\ req[r].start = Num(3)
    /\ req[r].end = Num(1)
    /\ req[r].status = 200
    /\ req[r].scanned_count = 3
    /\ \A i \in 1..3 : req[r].socks[i].pc = "fulfilled"
    /\ [i \in 1..3 |-> req[r].results[i].port] = <<1, 2, 3>>

\* C17: every element of the results of a scan response is a ProbeResult
\* with the request's host, its port and a status among open, closed,
\* timeout and error; a probe that raised an error gives, at its port, an
\* element with status error; the response is 200.
C17_ResultsAreProbeResults ==
  \A r \in Reqs :
    (req[r].kind = "scan" /\ req[r].pc = "responded" /\ req[r].socks # <<>>) =>
      /\ req[r].status = 200
      /\ \A i \in 1..Len(req[r].results) :
           /\ {"host", "port", "status"} \subseteq DOMAIN req[r].results[i]
           /\ req[r].results[i].host = req[r].host
           /\ req[r].results[i].port = req[r].call.items[i]
           /\ req[r].results[i].status \in {"open", "closed", "timeout", "error"}
           /\ req[r].socks[i].pc = "rejected" => req[r].results[i].status = "error"

\* C19: for a request whose host name was authorized through its resolved
\* addresses, every address a probe's connection is attempted to matches a
\* CIDR or exact-IP rule of the allowlist.
C19_ConnectsInsideAllowlist ==
  \A r \in Reqs :
    (/\ req[r].auth.pc = "returned"
     /\ req[r].auth.dns = "ok"
     /\ req[r].auth.result
     /\ ~IsHostnameRule(StripPort(req[r].host))) =>
      \A i \in 1..Len(req[r].socks) :
        req[r].socks[i].address # <<>> => AddressInAllowlist(req[r].socks[i].address)

\* C20: if every started probe eventually receives an event, a scan request
\* whose handler has called mapWithConcurrency eventually has started a
\* probe for every port of its list and has sent a 200 response, and after
\* its response nothing more is sent for it.
C20_ScanCompletes ==
  /\ Scheduled(req[1]) ~>
       (/\ Scheduled(req[1])
        /\ req[1].pc = "responded"
        /\ req[1].status = 200
        /\ Len(req[1].socks) = Len(req[1].call.items)
        /\ Len(req[1].results) = Len(req[1].call.items))
  /\ [][req[1].pc = "responded" => req'[1] = req[1]]_vars

\* C20 witness: a scan of three ports with concurrency 1 has started its
\* three probes one after the other and has answered 200.
C20_Witness ==
  /\ pool = "params"
  /\ Scheduled(req[1])
  /\ req[1].call.concurrency = 1
  /\ Len(req[1].call.items) = 3
  /\ Len(req[1].socks) = 3
  /\ req[1].call.order = <<1, 2, 3>>
  /\ req[1].pc = "responded"
  /\ req[1].status = 200

====
